---- MODULE Spec2Model ----
(***************************************************************************)
(* Model of server.js, the job scraper service: the shared browser handle  *)
(* (getBrowser), the two extractors (scrapeLinkedIn, scrapeNaukri), the    *)
(* enrichment functions (findCareerPage, findHREmail) and the handler of   *)
(* POST /api/scrape.  One action is the code a handler runs between two    *)
(* awaits: JavaScript interleaves concurrent handlers only at an await.    *)
(***************************************************************************)
EXTENDS Integers, Sequences, FiniteSets, TLC

(* ---------------- bounds of the model ---------------- *)
NumReqs == 2          \* request slots (requests that may overlap)
MaxSources == 2       \* longest sources list of a request
MaxRet == 6           \* most job cards one extractor call finds
MaxResultsTop == 3    \* largest explicit maxResults of a request
MaxFaults == 2        \* most automation-engine calls that fail in one run
MaxSignals == 2       \* most SIGINT signals the process receives

(* ---------------- program constants ---------------- *)
DefaultMaxResults == 20     \* maxResults = 20
EnrichLimit == 5            \* Math.min(allJobs.length, 5)
ProgressLinkedIn == 20
ProgressNaukri == 40
ProgressEnrich == 60
ProgressDone == 100

(* ---------------- JavaScript values ---------------- *)
Undefined == "undefined"    \* a field the request body or a record lacks
Null == "null"
NoBrowser == 0              \* let browser = null

Reqs == 1..NumReqs

\* a plausible slip: a third branch, or an else without a test
KnownSourcesAny == {"linkedin", "naukri", "indeed"}

\* the sources the handler has a branch for
KnownSources == {"linkedin", "naukri"}
SourceIds == KnownSources \cup {"indeed"}

Truthy(v) == v \notin {Undefined, Null, ""}

Min(a, b) == IF a < b THEN a ELSE b
Max(a, b) == IF a > b THEN a ELSE b

\* Math.ceil(a / n) for an integer a and n >= 1 (Math.ceil(-0.5) is -0)
CeilDiv(a, n) == -((-a) \div n)

\* Array.prototype.slice(0, end): a negative end counts from the back
Slice(s, end) ==
  LET e == IF end < 0 THEN Max(Len(s) + end, 0) ELSE Min(end, Len(s))
  IN  SubSeq(s, 1, e)

\* const { keywords, location, sources, maxResults = 20 } = req.body
MaxResultsOf(b) ==
  IF "maxResults" \in b.given THEN b.maxResults ELSE DefaultMaxResults

\* const resultsPerSource = Math.ceil(maxResults / sources.length), read
\* only inside the loop over sources, hence with sources.length >= 1
ResultsPerSource(b) == CeilDiv(MaxResultsOf(b), Len(b.sources))

\* the record page.evaluate builds for the k-th card of a source's page
LinkedInCard(k) ==
  [id |-> <<"linkedin", k>>, source |-> "linkedin",
   careerPageUrl |-> Undefined, hrEmail |-> Undefined]

NaukriCard(k) ==
  [id |-> <<"naukri", k>>, source |-> "naukri",
   careerPageUrl |-> Undefined, hrEmail |-> Undefined]

\* what the evaluate call of an extractor returns when the page shows n cards
LinkedInResults(n) == [k \in 1..n |-> LinkedInCard(k)]
NaukriResults(n) == [k \in 1..n |-> NaukriCard(k)]

ExtractorResults(fn, n) ==
  IF fn = "scrapeLinkedIn" THEN LinkedInResults(n) ELSE NaukriResults(n)

\* an entry of callLog: the function called and the loop position of the
\* call (the index of the source or of the job)
Call(fn, at) == [fn |-> fn, at |-> at]

\* a plausible slip: the two branches of the handler call the other extractor
ScraperSwapped(src) == IF src = "linkedin" THEN "scrapeNaukri" ELSE "scrapeLinkedIn"

\* the extractor the handler calls for a known source
Scraper(src) == IF src = "linkedin" THEN "scrapeLinkedIn" ELSE "scrapeNaukri"

(* ---------------- frames of the response stream ---------------- *)
ProgressFrame(msg, pct) == [type |-> "progress", message |-> msg, progress |-> pct]
CompleteFrame(jobs) == [type |-> "complete", jobs |-> jobs]

\* a plausible slip: the frame of the LinkedIn branch copied to the other
SourceFrameCopied(src) ==
  ProgressFrame("Searching LinkedIn...", ProgressLinkedIn)

\* the frame the handler writes before it calls the extractor of src
SourceFrame(src) ==
  IF src = "linkedin"
  THEN ProgressFrame("Searching LinkedIn...", ProgressLinkedIn)
  ELSE ProgressFrame("Searching Naukri.com...", ProgressNaukri)

(* ---------------- request bodies ---------------- *)
SeqsUpTo(S, n) == UNION {[1..k -> S] : k \in 0..n}

\* req.body: given holds the names of the optional fields the body has; a
\* field it lacks reads as undefined
AllBodies ==
  {b \in [keywords : {Undefined, "", "dev"},
          sources : SeqsUpTo(SourceIds, MaxSources),
          maxResults : -1..MaxResultsTop,
          given : SUBSET {"sources", "maxResults"}] :
     /\ "sources" \notin b.given => b.sources = <<>>
     /\ "maxResults" \notin b.given => b.maxResults = 0}

\* the bodies of Spec: with the default maxResults at most one source
Bodies ==
  {b \in AllBodies : "maxResults" \notin b.given => Len(b.sources) <= 1}

\* bodies of the requests that overlap in SpecConc: request 1 asks for one
\* job of either source, the others for no job of LinkedIn
ConcBodies(r) ==
  [keywords : {"dev"},
   sources : IF r = 1 THEN {<<"linkedin">>, <<"naukri">>} ELSE {<<"linkedin">>},
   maxResults : IF r = 1 THEN {1} ELSE {0},
   given : {{"sources", "maxResults"}}]

NoBody == [keywords |-> Undefined, sources |-> <<>>, maxResults |-> 0, given |-> {}]

\* what a try block leaves for after its finally block
NoPending == [kind |-> "none", value |-> <<>>]
ReturnOf(v) == [kind |-> "return", value |-> v]
ThrowOf == [kind |-> "throw", value |-> <<>>]

\* bodies of res.json, as sets of key/value pairs
NoJson == {}
KeywordsRequired == {<<"error", "Keywords are required">>}
FailedToScrape == {<<"error", "Failed to scrape jobs">>, <<"details", "message">>}

VARIABLES
  browser,     \* the module-level browser: NoBrowser or the handle stored
  launched,    \* number of puppeteer.launch calls made so far
  processes,   \* handles of the browser processes that did start
  faults,      \* engine calls that have failed so far
  body,        \* body[r]: req.body of request r
  pc,          \* pc[r]: where the handler of r is suspended
  phase,       \* phase[r]: the function r is inside: extract, career, email
  si,          \* si[r]: position of the for..of loop over sources (1-based)
  ei,          \* ei[r]: the i of the enrichment loop (0-based)
  allJobs,     \* allJobs[r]
  handle,      \* handle[r]: the const browser of the function r is inside
  pending,     \* pending[r]: what the try block left to return or throw
  openPages,   \* openPages[r]: page sessions r opened that are not closed
  frames,      \* frames[r]: the frames res.write has written
  status,      \* status[r]: 0 until a status line is sent
  json,        \* json[r]: the body sent by res.json
  ended,       \* ended[r]: res.end() or res.json() has finished the response
  returned,    \* returned[r]: per loop iteration, what the source contributed
  callLog,     \* callLog[r]: the extractor and enrichment calls r has made
  handleLog,   \* handleLog[r]: what each getBrowser call of r returned, or
               \* NoBrowser for a call that raised
  leaked,      \* leaked[r]: page sessions of r that stayed open although
               \* page.close() was called on them (the call raised)
  shutdown     \* the SIGINT handler: signals received, handlers waiting for
               \* browser.close(), the handles close was called on, exited

vars == <<browser, launched, processes, faults, body, pc, phase, si, ei,
          allJobs, handle, pending, openPages, frames, status, json, ended, returned,
          callLog, handleLog, leaked, shutdown>>

(* ---------------- initial states ---------------- *)
InitShared ==
  /\ browser = NoBrowser
  /\ launched = 0
  /\ processes = {}
  /\ faults = 0
  /\ phase = [r \in Reqs |-> "none"]
  /\ si = [r \in Reqs |-> 0]
  /\ ei = [r \in Reqs |-> 0]
  /\ allJobs = [r \in Reqs |-> <<>>]
  /\ handle = [r \in Reqs |-> NoBrowser]
  /\ pending = [r \in Reqs |-> NoPending]
  /\ openPages = [r \in Reqs |-> 0]
  /\ frames = [r \in Reqs |-> <<>>]
  /\ status = [r \in Reqs |-> 0]
  /\ json = [r \in Reqs |-> NoJson]
  /\ ended = [r \in Reqs |-> FALSE]
  /\ returned = [r \in Reqs |-> <<>>]
  /\ callLog = [r \in Reqs |-> <<>>]
  /\ handleLog = [r \in Reqs |-> <<>>]
  /\ leaked = [r \in Reqs |-> 0]
  /\ shutdown = [signals |-> 0, closing |-> 0, closeCalls |-> <<>>, exited |-> FALSE]

\* one request, with any body
Init ==
  /\ InitShared
  /\ \E b \in Bodies : body = [r \in Reqs |-> IF r = 1 THEN b ELSE NoBody]
  /\ pc = [r \in Reqs |-> IF r = 1 THEN "recv" ELSE "absent"]

\* NumReqs requests that may overlap
InitConc ==
  /\ InitShared
  /\ body \in {f \in [Reqs -> UNION {ConcBodies(r) : r \in Reqs}] :
                 \A r \in Reqs : f[r] \in ConcBodies(r)}
  /\ pc = [r \in Reqs |-> "recv"]

(* ---------------- the handler of POST /api/scrape ---------------- *)
\* a plausible slip: only a body without the field is refused
KeywordsMissingOnlyUndefined(b) == b.keywords = Undefined

\* if (!keywords)
KeywordsMissing(b) == ~Truthy(b.keywords)

\* a plausible slip: the loop bound is allJobs.length
EnrichCountAll(jobs) == Len(jobs)

\* Math.min(allJobs.length, 5), the bound of the enrichment loop
EnrichCount(jobs) == Min(Len(jobs), EnrichLimit)

\* res.write(frame): the first write sends the headers with status 200
Write(r, fs) ==
  /\ frames' = [frames EXCEPT ![r] = @ \o fs]
  /\ status' = [status EXCEPT ![r] = IF @ = 0 THEN 200 ELSE @]

\* the handler up to its first loop: validation, and the TypeError that
\* sources.length raises for a body without sources (caught at the outer
\* catch, which answers 500)
Receive(r) ==
  /\ pc[r] = "recv"
  /\ IF KeywordsMissing(body[r])
     THEN /\ status' = [status EXCEPT ![r] = 400]
          /\ json' = [json EXCEPT ![r] = KeywordsRequired]
          /\ ended' = [ended EXCEPT ![r] = TRUE]
          /\ pc' = [pc EXCEPT ![r] = "done"]
          /\ UNCHANGED si
     ELSE IF "sources" \notin body[r].given
     THEN /\ status' = [status EXCEPT ![r] = 500]
          /\ json' = [json EXCEPT ![r] = FailedToScrape]
          /\ ended' = [ended EXCEPT ![r] = TRUE]
          /\ pc' = [pc EXCEPT ![r] = "done"]
          /\ UNCHANGED si
     ELSE /\ pc' = [pc EXCEPT ![r] = "srcLoop"]
          /\ si' = [si EXCEPT ![r] = 1]
          /\ UNCHANGED <<status, json, ended>>
  /\ UNCHANGED <<shutdown, leaked, browser, launched, processes, faults, body, phase, ei,
                 allJobs, handle, pending, openPages, frames, returned,
                 callLog, handleLog>>

\* head of for (const source of sources): the progress frame and the call
\* of the extractor of a known source; [].slice for any other source; after
\* the last source the "Finding career pages..." frame
SourceLoop(r) ==
  /\ pc[r] = "srcLoop"
  /\ IF si[r] > Len(body[r].sources)
     THEN /\ Write(r, <<ProgressFrame("Finding career pages...", ProgressEnrich)>>)
          /\ ei' = [ei EXCEPT ![r] = 0]
          /\ pc' = [pc EXCEPT ![r] = "enrichLoop"]
          /\ UNCHANGED <<phase, si, returned, callLog>>
     ELSE LET src == body[r].sources[si[r]] IN
          IF src \in KnownSources
          THEN /\ Write(r, <<SourceFrame(src)>>)
               /\ callLog' = [callLog EXCEPT ![r] = Append(@, Call(Scraper(src), si[r]))]
               /\ phase' = [phase EXCEPT ![r] = "extract"]
               /\ pc' = [pc EXCEPT ![r] = "getBrowser"]
               /\ UNCHANGED <<si, ei, returned>>
          ELSE /\ UNCHANGED callLog
               /\ returned' = [returned EXCEPT ![r] =
                                 Append(@, [source |-> src, threw |-> FALSE,
                                            kept |-> <<>>])]
               /\ si' = [si EXCEPT ![r] = @ + 1]
               /\ UNCHANGED <<phase, ei, pc, frames, status>>
  /\ UNCHANGED <<shutdown, leaked, browser, launched, processes, faults, body, allJobs, handle,
                 pending, openPages, json, ended, handleLog>>

\* head of the enrichment loop: the call of findCareerPage for job i, or
\* after the loop the 100% frame, the complete frame and res.end()
EnrichLoop(r) ==
  /\ pc[r] = "enrichLoop"
  /\ IF ei[r] < EnrichCount(allJobs[r])
     THEN /\ callLog' = [callLog EXCEPT ![r] = Append(@, Call("findCareerPage", ei[r]))]
          /\ phase' = [phase EXCEPT ![r] = "career"]
          /\ pc' = [pc EXCEPT ![r] = "getBrowser"]
          /\ UNCHANGED <<frames, status, ended>>
     ELSE /\ Write(r, <<ProgressFrame("Complete!", ProgressDone),
                        CompleteFrame(allJobs[r])>>)
          /\ ended' = [ended EXCEPT ![r] = TRUE]
          /\ phase' = [phase EXCEPT ![r] = "none"]
          /\ pc' = [pc EXCEPT ![r] = "done"]
          /\ UNCHANGED callLog
  /\ UNCHANGED <<shutdown, leaked, browser, launched, processes, faults, body, si, ei, allJobs,
                 handle, pending, openPages, json, returned, handleLog>>

(* ---------------- how a call comes back to the handler ---------------- *)
\* the i-th job (0-based) of jobs with one field assigned
SetField(jobs, i, field, v) ==
  [jobs EXCEPT ![i + 1] = [@ EXCEPT ![field] = v]]

\* a plausible slip: the new jobs are put before the jobs merged so far
ExtractReturnPrepend(r, jobs) ==
  /\ allJobs' = [allJobs EXCEPT ![r] = Slice(jobs, ResultsPerSource(body[r])) \o @]
  /\ returned' = [returned EXCEPT ![r] =
       Append(@, [source |-> body[r].sources[si[r]], threw |-> FALSE,
                  kept |-> Slice(jobs, ResultsPerSource(body[r]))])]
  /\ si' = [si EXCEPT ![r] = @ + 1]
  /\ phase' = [phase EXCEPT ![r] = "none"]
  /\ pc' = [pc EXCEPT ![r] = "srcLoop"]
  /\ UNCHANGED <<ei, callLog>>

\* sourceJobs = await scrapeX(...) has returned jobs:
\* allJobs = [...allJobs, ...sourceJobs.slice(0, resultsPerSource)]
ExtractReturn(r, jobs) ==
  /\ allJobs' = [allJobs EXCEPT ![r] = @ \o Slice(jobs, ResultsPerSource(body[r]))]
  /\ returned' = [returned EXCEPT ![r] =
       Append(@, [source |-> body[r].sources[si[r]], threw |-> FALSE,
                  kept |-> Slice(jobs, ResultsPerSource(body[r]))])]
  /\ si' = [si EXCEPT ![r] = @ + 1]
  /\ phase' = [phase EXCEPT ![r] = "none"]
  /\ pc' = [pc EXCEPT ![r] = "srcLoop"]
  /\ UNCHANGED <<ei, callLog>>

\* a plausible slip: the error of an extractor ends the handler, with no
\* further frame
ExtractThrowAbort(r) ==
  /\ returned' = [returned EXCEPT ![r] =
       Append(@, [source |-> body[r].sources[si[r]], threw |-> TRUE, kept |-> <<>>])]
  /\ phase' = [phase EXCEPT ![r] = "none"]
  /\ pc' = [pc EXCEPT ![r] = "done"]
  /\ UNCHANGED <<allJobs, si, ei, callLog>>

\* a plausible slip: the error of an extractor discards the jobs merged so far
ExtractThrowDrop(r) ==
  /\ returned' = [returned EXCEPT ![r] =
       Append(@, [source |-> body[r].sources[si[r]], threw |-> TRUE, kept |-> <<>>])]
  /\ allJobs' = [allJobs EXCEPT ![r] = <<>>]
  /\ si' = [si EXCEPT ![r] = @ + 1]
  /\ phase' = [phase EXCEPT ![r] = "none"]
  /\ pc' = [pc EXCEPT ![r] = "srcLoop"]
  /\ UNCHANGED <<ei, callLog>>

\* the extractor raised: catch (err) of the loop over sources logs it
ExtractThrow(r) ==
  /\ returned' = [returned EXCEPT ![r] =
       Append(@, [source |-> body[r].sources[si[r]], threw |-> TRUE, kept |-> <<>>])]
  /\ si' = [si EXCEPT ![r] = @ + 1]
  /\ phase' = [phase EXCEPT ![r] = "none"]
  /\ pc' = [pc EXCEPT ![r] = "srcLoop"]
  /\ UNCHANGED <<allJobs, ei, callLog>>

\* job.careerPageUrl = await findCareerPage(job.company) has returned v;
\* if (job.careerPageUrl) the handler calls findHREmail, whose own guard
\* if (!careerPageUrl) return null is then false
CareerReturn(r, v) ==
  /\ allJobs' = [allJobs EXCEPT ![r] = SetField(@, ei[r], "careerPageUrl", v)]
  /\ IF Truthy(v)
     THEN /\ callLog' = [callLog EXCEPT ![r] = Append(@, Call("findHREmail", ei[r]))]
          /\ phase' = [phase EXCEPT ![r] = "email"]
          /\ pc' = [pc EXCEPT ![r] = "getBrowser"]
          /\ UNCHANGED ei
     ELSE /\ phase' = [phase EXCEPT ![r] = "none"]
          /\ pc' = [pc EXCEPT ![r] = "enrichLoop"]
          /\ ei' = [ei EXCEPT ![r] = @ + 1]
          /\ UNCHANGED callLog
  /\ UNCHANGED <<si, returned>>

\* job.hrEmail = await findHREmail(job.careerPageUrl) has returned v
EmailReturn(r, v) ==
  /\ allJobs' = [allJobs EXCEPT ![r] = SetField(@, ei[r], "hrEmail", v)]
  /\ phase' = [phase EXCEPT ![r] = "none"]
  /\ pc' = [pc EXCEPT ![r] = "enrichLoop"]
  /\ ei' = [ei EXCEPT ![r] = @ + 1]
  /\ UNCHANGED <<si, returned, callLog>>

\* an enrichment call raised: catch (err) of the enrichment loop logs it
EnrichThrow(r) ==
  /\ phase' = [phase EXCEPT ![r] = "none"]
  /\ pc' = [pc EXCEPT ![r] = "enrichLoop"]
  /\ ei' = [ei EXCEPT ![r] = @ + 1]
  /\ UNCHANGED <<allJobs, si, returned, callLog>>

\* the function r is inside ends with outcome o
Finish(r, o) ==
  IF phase[r] = "extract"
  THEN IF o.kind = "return" THEN ExtractReturn(r, o.value) ELSE ExtractThrow(r)
  ELSE IF o.kind = "throw" THEN EnrichThrow(r)
  ELSE IF phase[r] = "career" THEN CareerReturn(r, o.value)
  ELSE EmailReturn(r, o.value)

(* ---------------- getBrowser ---------------- *)
\* a plausible slip: no if (!browser), every call launches
GetBrowserAlwaysLaunch(r) ==
  /\ pc[r] = "getBrowser"
  /\ launched' = launched + 1
  /\ pc' = [pc EXCEPT ![r] = "launching"]
  /\ UNCHANGED <<shutdown, leaked, handle, handleLog, browser, processes,
                 faults, body, phase, si, ei, allJobs, pending, openPages,
                 frames, status, json, ended, returned, callLog>>

\* if (!browser) puppeteer.launch(...) is called and the function waits;
\* else return browser
GetBrowser(r) ==
  /\ pc[r] = "getBrowser"
  /\ IF browser = NoBrowser
     THEN /\ launched' = launched + 1
          /\ pc' = [pc EXCEPT ![r] = "launching"]
          /\ UNCHANGED <<handle, handleLog>>
     ELSE /\ handle' = [handle EXCEPT ![r] = browser]
          /\ handleLog' = [handleLog EXCEPT ![r] = Append(@, browser)]
          /\ pc' = [pc EXCEPT ![r] = "newPage"]
          /\ UNCHANGED launched
  /\ UNCHANGED <<shutdown, leaked, browser, processes, faults, body, phase, si, ei, allJobs,
                 pending, openPages, frames, status, json, ended, returned,
                 callLog>>

\* the launch r waits for has started a process: browser = <its handle>;
\* return browser
LaunchOk(r) ==
  /\ pc[r] = "launching"
  /\ LET h == Cardinality(processes) + 1 IN
       /\ processes' = processes \cup {h}
       /\ browser' = h
       /\ handle' = [handle EXCEPT ![r] = h]
       /\ handleLog' = [handleLog EXCEPT ![r] = Append(@, h)]
  /\ pc' = [pc EXCEPT ![r] = "newPage"]
  /\ UNCHANGED <<shutdown, leaked, launched, faults, body, phase, si, ei, allJobs, pending,
                 openPages, frames, status, json, ended, returned, callLog>>

\* the launch r waits for has failed: getBrowser raises, outside every try
\* of the function that called it
LaunchFail(r) ==
  /\ pc[r] = "launching"
  /\ faults < MaxFaults
  /\ faults' = faults + 1
  /\ handleLog' = [handleLog EXCEPT ![r] = Append(@, NoBrowser)]
  /\ Finish(r, ThrowOf)
  /\ UNCHANGED <<shutdown, leaked, browser, launched, processes, body, handle, pending,
                 openPages, frames, status, json, ended>>

(* ---------------- the page session of one call ---------------- *)
\* a plausible slip: a second page session is opened beside the one in use
NewPageOkTwice(r) ==
  /\ pc[r] = "newPage"
  /\ openPages' = [openPages EXCEPT ![r] = @ + 2]
  /\ pc' = [pc EXCEPT ![r] = "body"]
  /\ UNCHANGED <<shutdown, leaked, browser, launched, processes, faults, body,
                 phase, si, ei, allJobs, handle, pending, frames, status, json,
                 ended, returned, callLog, handleLog>>

\* await browser.newPage() gives a page
NewPageOk(r) ==
  /\ pc[r] = "newPage"
  /\ openPages' = [openPages EXCEPT ![r] = @ + 1]
  /\ pc' = [pc EXCEPT ![r] = "body"]
  /\ UNCHANGED <<shutdown, leaked, browser, launched, processes, faults, body, phase, si, ei,
                 allJobs, handle, pending, frames, status, json, ended,
                 returned, callLog, handleLog>>

\* await browser.newPage() raises, before the try block is entered
NewPageFail(r) ==
  /\ pc[r] = "newPage"
  /\ faults < MaxFaults
  /\ faults' = faults + 1
  /\ Finish(r, ThrowOf)
  /\ UNCHANGED <<shutdown, leaked, browser, launched, processes, body, handle, pending,
                 openPages, frames, status, json, ended, handleLog>>

\* the try block of scrapeLinkedIn / scrapeNaukri (setUserAgent, goto,
\* waitForSelector, evaluate): the jobs of the n cards found, or the error
\* that catch (error) logs and throws again
ExtractBody(r) ==
  /\ pc[r] = "body"
  /\ phase[r] = "extract"
  /\ \/ /\ \E n \in 0..MaxRet :
             pending' = [pending EXCEPT ![r] =
               ReturnOf(ExtractorResults(Scraper(body[r].sources[si[r]]), n))]
        /\ UNCHANGED faults
     \/ /\ faults < MaxFaults
        /\ faults' = faults + 1
        /\ pending' = [pending EXCEPT ![r] = ThrowOf]
  /\ pc' = [pc EXCEPT ![r] = "closing"]
  /\ UNCHANGED <<shutdown, leaked, browser, launched, processes, body, phase, si, ei, allJobs,
                 handle, openPages, frames, status, json, ended, returned,
                 callLog, handleLog>>

\* the try block of findCareerPage: the first result link or null; on an
\* error catch (error) returns null
CareerBody(r) ==
  /\ pc[r] = "body"
  /\ phase[r] = "career"
  /\ \/ /\ \E v \in {"https://career.example", Null} :
             pending' = [pending EXCEPT ![r] = ReturnOf(v)]
        /\ UNCHANGED faults
     \/ /\ faults < MaxFaults
        /\ faults' = faults + 1
        /\ pending' = [pending EXCEPT ![r] = ReturnOf(Null)]
  /\ pc' = [pc EXCEPT ![r] = "closing"]
  /\ UNCHANGED <<shutdown, leaked, browser, launched, processes, body, phase, si, ei, allJobs,
                 handle, openPages, frames, status, json, ended, returned,
                 callLog, handleLog>>

\* the try block of findHREmail: an address of the page or null; on an
\* error catch (error) returns null
EmailBody(r) ==
  /\ pc[r] = "body"
  /\ phase[r] = "email"
  /\ \/ /\ \E v \in {"hr@career.example", Null} :
             pending' = [pending EXCEPT ![r] = ReturnOf(v)]
        /\ UNCHANGED faults
     \/ /\ faults < MaxFaults
        /\ faults' = faults + 1
        /\ pending' = [pending EXCEPT ![r] = ReturnOf(Null)]
  /\ pc' = [pc EXCEPT ![r] = "closing"]
  /\ UNCHANGED <<shutdown, leaked, browser, launched, processes, body, phase, si, ei, allJobs,
                 handle, openPages, frames, status, json, ended, returned,
                 callLog, handleLog>>

\* a plausible slip: no finally block, the page session is never closed
ClosePageOkSkip(r) ==
  /\ pc[r] = "closing"
  /\ pending' = [pending EXCEPT ![r] = NoPending]
  /\ Finish(r, pending[r])
  /\ UNCHANGED <<shutdown, leaked, browser, launched, processes, faults, body,
                 handle, openPages, frames, status, json, ended, handleLog>>

\* finally { await page.close() } succeeds: the function ends as its try
\* block left it
ClosePageOk(r) ==
  /\ pc[r] = "closing"
  /\ openPages' = [openPages EXCEPT ![r] = @ - 1]
  /\ pending' = [pending EXCEPT ![r] = NoPending]
  /\ Finish(r, pending[r])
  /\ UNCHANGED <<shutdown, leaked, browser, launched, processes, faults, body, handle, frames,
                 status, json, ended, handleLog>>

\* finally { await page.close() } raises: the function ends by raising
\* that error; the engine may or may not have closed the page session
ClosePageFail(r) ==
  /\ pc[r] = "closing"
  /\ faults < MaxFaults
  /\ faults' = faults + 1
  /\ pending' = [pending EXCEPT ![r] = NoPending]
  /\ \/ /\ openPages' = [openPages EXCEPT ![r] = @ - 1]
        /\ UNCHANGED leaked
     \/ /\ leaked' = [leaked EXCEPT ![r] = @ + 1]
        /\ UNCHANGED openPages
  /\ Finish(r, ThrowOf)
  /\ UNCHANGED <<shutdown, browser, launched, processes, body, handle,
                 frames, status, json, ended, handleLog>>

(* ---------------- specifications ---------------- *)
Step(r) ==
  \/ Receive(r)
  \/ SourceLoop(r)
  \/ EnrichLoop(r)
  \/ GetBrowser(r)
  \/ LaunchOk(r)
  \/ LaunchFail(r)
  \/ NewPageOk(r)
  \/ NewPageFail(r)
  \/ ExtractBody(r)
  \/ CareerBody(r)
  \/ EmailBody(r)
  \/ ClosePageOk(r)
  \/ ClosePageFail(r)

Next == \E r \in Reqs : Step(r)

\* one request with any body
Spec == Init /\ [][Next]_vars

\* overlapping requests
SpecConc == InitConc /\ [][Next]_vars

(* ---------------- process.on("SIGINT") ---------------- *)
\* a SIGINT arrives: if (browser) the handler calls browser.close() and
\* waits for it; else process.exit(0)
Sigint ==
  /\ ~shutdown.exited
  /\ shutdown.signals < MaxSignals
  /\ shutdown' =
       IF browser # NoBrowser
       THEN [shutdown EXCEPT !.signals = @ + 1, !.closing = @ + 1,
                             !.closeCalls = Append(@, browser)]
       ELSE [shutdown EXCEPT !.signals = @ + 1, !.exited = TRUE]
  /\ UNCHANGED <<browser, launched, processes, faults, body, pc, phase, si,
                 ei, allJobs, handle, pending, openPages, frames, status,
                 json, ended, returned, callLog, handleLog, leaked>>

\* the browser.close() a handler waits for has finished: process.exit(0)
SigintExit ==
  /\ ~shutdown.exited
  /\ shutdown.closing > 0
  /\ shutdown' = [shutdown EXCEPT !.closing = @ - 1, !.exited = TRUE]
  /\ UNCHANGED <<browser, launched, processes, faults, body, pc, phase, si,
                 ei, allJobs, handle, pending, openPages, frames, status,
                 json, ended, returned, callLog, handleLog, leaked>>

\* the handlers of the requests run until the process has exited
Running ==
  /\ ~shutdown.exited
  /\ Next

NextSig ==
  \/ Running
  \/ Sigint
  \/ SigintExit

\* overlapping requests and the shutdown signal
SpecSig == InitConc /\ [][NextSig]_vars

\* Spec with the scheduling of the event loop: a handler whose awaited call
\* has settled is resumed, and every awaited engine call settles (each has a
\* timeout)
FairSpec == Spec /\ \A r \in Reqs : WF_vars(Step(r))

(* ---------------- vocabulary of the properties ---------------- *)
Range(s) == {s[i] : i \in 1..Len(s)}

\* the frames r has written end with the complete frame
Completed(r) ==
  /\ frames[r] # <<>>
  /\ frames[r][Len(frames[r])].type = "complete"

\* the jobs of the last frame of a completed stream
CompleteJobs(r) == frames[r][Len(frames[r])].jobs

ProgressFrames(r) == {i \in 1..Len(frames[r]) : frames[r][i].type = "progress"}
CompleteFrames(r) == {i \in 1..Len(frames[r]) : frames[r][i].type = "complete"}

\* keywords non-empty, sources a non-empty list of known sources,
\* maxResults a positive integer
ValidBody(b) ==
  /\ Truthy(b.keywords)
  /\ "sources" \in b.given
  /\ b.sources # <<>>
  /\ Range(b.sources) \subseteq KnownSources
  /\ MaxResultsOf(b) >= 1

Ids(jobs) == [k \in 1..Len(jobs) |-> jobs[k].id]

RECURSIVE KeptOf(_)
\* the records the iterations of the loop over sources contributed, in order
KeptOf(rs) ==
  IF rs = <<>> THEN <<>> ELSE KeptOf(SubSeq(rs, 1, Len(rs) - 1)) \o rs[Len(rs)].kept

IsCareerCall(c) == c.fn = "findCareerPage"
CareerCalls(r) == SelectSeq(callLog[r], IsCareerCall)

(* ---------------- C1 ---------------- *)
\* C1: for a valid request the jobs of the complete event are at most
\* maxResults.  The code has no final truncation: each source is cut to
\* ceil(maxResults / sources.length) and the cuts are concatenated.
C1Claim ==
  \A r \in Reqs :
    (ValidBody(body[r]) /\ Completed(r)) =>
      Len(CompleteJobs(r)) <= MaxResultsOf(body[r])

(* ---------------- C2 ---------------- *)
\* C2: the progress values of one stream never decrease, and the stream
\* ends with exactly one complete event, written last.  The code writes 40
\* for naukri and 20 for linkedin in the order the sources are requested.
C2Claim ==
  \A r \in Reqs :
    /\ \A i, j \in ProgressFrames(r) :
         i < j => frames[r][i].progress <= frames[r][j].progress
    /\ Cardinality(CompleteFrames(r)) <= 1
    /\ \A i \in CompleteFrames(r) : i = Len(frames[r]) /\ ended[r]
    /\ (ended[r] /\ status[r] = 200) => Completed(r)

(* ---------------- C3 ---------------- *)
\* C3: whatever the interleaving of overlapping requests, at most one
\* browser process is launched and every getBrowser call that returns gives
\* the same handle.  The code tests browser before the await and assigns it
\* after: two calls that both find it null both launch.
C3Claim ==
  /\ Cardinality(processes) <= 1
  /\ \A r1, r2 \in Reqs :
       \A i \in 1..Len(handleLog[r1]), j \in 1..Len(handleLog[r2]) :
         (handleLog[r1][i] # NoBrowser /\ handleLog[r2][j] # NoBrowser)
           => handleLog[r1][i] = handleLog[r2][j]

(*---------------- C4 ---------------- *)
\* C4: once a frame of a response has been written the response reaches
\* the complete event, whatever fails; a 400 or 500 response is only sent
\* for a request that has written no frame.
C4Thm ==
  /\ [](\A r \in Reqs : status[r] \in {400, 500} => frames[r] = <<>>)
  /\ \A r \in Reqs : (frames[r] # <<>>) ~> Completed(r)

\* a stream that completed although an extractor raised and the enrichment
\* of its first job raised
C4Witness ==
  \E r \in Reqs :
    /\ Completed(r)
    /\ \E i \in 1..Len(returned[r]) : returned[r][i].threw
    /\ CompleteJobs(r) # <<>>
    /\ CompleteJobs(r)[1].careerPageUrl = Undefined

(* ---------------- C5 ---------------- *)
\* the first getBrowser call of r raised: the launch failed
FirstLaunchFailed(r) == handleLog[r] # <<>> /\ handleLog[r][1] = NoBrowser

\* C5: a request whose first scrape attempt fails to launch the browser
\* ends with a synchronous 500 response and writes no stream frame.  The
\* code has written the progress frame of the source before the launch, and
\* the catch of the loop over sources takes the error as that source's.
C5Claim ==
  \A r \in Reqs :
    (FirstLaunchFailed(r) /\ pc[r] = "done") =>
      (status[r] = 500 /\ frames[r] = <<>>)

(* ---------------- C6 ---------------- *)
\* C6: a request with missing or empty keywords is answered 400 with the
\* body {"error":"Keywords are required"}; it writes no frame, calls no
\* extractor, no enrichment function and no getBrowser, opens no page, and
\* the step that answers it leaves the browser handle as it was.
C6Thm ==
  /\ [](\A r \in Reqs :
         (pc[r] \notin {"absent", "recv"} /\ ~Truthy(body[r].keywords)) =>
           /\ pc[r] = "done"
           /\ status[r] = 400
           /\ json[r] = KeywordsRequired
           /\ ended[r]
           /\ frames[r] = <<>>
           /\ callLog[r] = <<>>
           /\ handleLog[r] = <<>>
           /\ returned[r] = <<>>
           /\ openPages[r] = 0)
  /\ [][\A r \in Reqs :
         (pc[r] = "recv" /\ ~Truthy(body[r].keywords) /\ pc'[r] # "recv") =>
           UNCHANGED <<browser, launched, processes>>]_vars

\* a request with empty keywords that has been answered
C6Witness ==
  \E r \in Reqs : body[r].keywords = "" /\ pc[r] = "done" /\ status[r] = 400

(* ---------------- C7 ---------------- *)
\* sources missing, sources empty, or maxResults not a positive integer
InvalidOtherFields(b) ==
  \/ "sources" \notin b.given
  \/ b.sources = <<>>
  \/ MaxResultsOf(b) < 1

\* C7: a request with keywords whose sources are missing or empty, or whose
\* maxResults is not a positive integer, is rejected with an error response
\* before any frame is written.  The code validates keywords only.
C7Claim ==
  \A r \in Reqs :
    (Truthy(body[r].keywords) /\ InvalidOtherFields(body[r])) =>
      /\ frames[r] = <<>>
      /\ pc[r] = "done" => status[r] \in {400, 500}

(* ---------------- C8 ---------------- *)
\* C8: in a complete event no job at index 5 or higher carries
\* careerPageUrl or hrEmail, and findCareerPage is called at most 5 times
\* per request, for the jobs 0, 1, 2, ... in that order.
C8Thm ==
  \A r \in Reqs :
    /\ Completed(r) =>
         \A k \in 1..Len(CompleteJobs(r)) :
           k - 1 >= 5 =>
             /\ CompleteJobs(r)[k].careerPageUrl = Undefined
             /\ CompleteJobs(r)[k].hrEmail = Undefined
    /\ Len(CareerCalls(r)) <= 5
    /\ \A k \in 1..Len(CareerCalls(r)) : CareerCalls(r)[k].at = k - 1

\* a complete event of more than 5 jobs, after 5 findCareerPage calls, the
\* fifth of which found a career page
C8Witness ==
  \E r \in Reqs :
    /\ Completed(r)
    /\ Len(CompleteJobs(r)) > 5
    /\ Len(CareerCalls(r)) = 5
    /\ Truthy(CompleteJobs(r)[5].careerPageUrl)

(* ---------------- C9 ---------------- *)
\* C9: an extractor that raises contributes no record; every requested
\* known source is still extracted, the records the other sources
\* contributed are the jobs of the complete event, and no error frame or
\* error response is produced.
C9Thm ==
  \A r \in Reqs :
    /\ \A i \in 1..Len(returned[r]) :
         returned[r][i].threw =>
           /\ returned[r][i].kept = <<>>
           /\ status[r] = 200
           /\ json[r] = NoJson
           /\ \A f \in 1..Len(frames[r]) :
                frames[r][f].type \in {"progress", "complete"}
    /\ Completed(r) =>
         /\ Len(returned[r]) = Len(body[r].sources)
         /\ \A i \in 1..Len(body[r].sources) :
              /\ returned[r][i].source = body[r].sources[i]
              /\ body[r].sources[i] \in KnownSources =>
                   \E c \in 1..Len(callLog[r]) :
                     callLog[r][c] = Call(Scraper(body[r].sources[i]), i)
         /\ Ids(CompleteJobs(r)) = Ids(KeptOf(returned[r]))

\* sources [linkedin, naukri], naukri raised: a complete event with
\* LinkedIn records only
C9Witness ==
  \E r \in Reqs :
    /\ Completed(r)
    /\ body[r].sources = <<"linkedin", "naukri">>
    /\ ~returned[r][1].threw
    /\ returned[r][2].threw
    /\ CompleteJobs(r) # <<>>
    /\ \A k \in 1..Len(CompleteJobs(r)) : CompleteJobs(r)[k].source = "linkedin"

(* ---------------- C10 ---------------- *)
\* C10: every record of a complete event has a source that is one of the
\* requested sources; with a single requested source s, the source s.
C10Thm ==
  \A r \in Reqs :
    Completed(r) =>
      \A k \in 1..Len(CompleteJobs(r)) :
        /\ CompleteJobs(r)[k].source \in Range(body[r].sources)
        /\ Len(body[r].sources) = 1 =>
             CompleteJobs(r)[k].source = body[r].sources[1]

\* a complete event with records, for the single source naukri
C10Witness ==
  \E r \in Reqs :
    /\ Completed(r)
    /\ body[r].sources = <<"naukri">>
    /\ Len(CompleteJobs(r)) >= 2

(* ---------------- C11 ---------------- *)
\* the number of browser.close() calls made on handle h
CloseCallsOn(h) ==
  Cardinality({i \in 1..Len(shutdown.closeCalls) : shutdown.closeCalls[i] = h})

\* C11: when the process has exited after the shutdown signal, close has
\* been called exactly once on every browser process that was launched, and
\* no launch is left in flight.  The handler closes only the handle stored
\* in browser at the signal: with a launch in flight browser is still null
\* and the process exits at once; a second signal calls close again.
C11Claim ==
  shutdown.exited =>
    /\ \A h \in processes : CloseCallsOn(h) = 1
    /\ \A r \in Reqs : pc[r] # "launching"

(* ---------------- C12 ---------------- *)
\* C12: findCareerPage and findHREmail never raise: a call that ends has
\* returned a value, which the handler assigns to the field of the job (null
\* at least).  getBrowser and newPage are called before the try block and
\* page.close() in the finally block: their errors leave the function.
C12Claim ==
  [][\A r \in Reqs :
       (phase[r] \in {"career", "email"} /\ phase'[r] = "none") =>
         IF phase[r] = "career"
         THEN allJobs'[r][ei[r] + 1].careerPageUrl # Undefined
         ELSE allJobs'[r][ei[r] + 1].hrEmail # Undefined]_vars

(* ---------------- C13 ---------------- *)
\* r is between browser.newPage() and the end of page.close()
InsidePage(r) == pc[r] \in {"body", "closing"}

Distinct(s) == \A i, j \in 1..Len(s) : i # j => s[i] # s[j]

\* the number of records of jobs with source src
CountOf(jobs, src) == Cardinality({k \in 1..Len(jobs) : jobs[k].source = src})

\* C14: with pairwise distinct sources each source contributes at most
\* ceil(maxResults / |sources|) records (none for a cap below 1) to the
\* complete event.  For a negative cap slice(0, cap) drops that many records
\* from the end instead: the request with maxResults -1 is not refused (C7).
C14Claim ==
  \A r \in Reqs :
    (Completed(r) /\ Distinct(body[r].sources)) =>
      \A i \in 1..Len(body[r].sources) :
        CountOf(CompleteJobs(r), body[r].sources[i])
          <= Max(ResultsPerSource(body[r]), 0)

(* ---------------- C15 ---------------- *)
\* the first position of src in the list s
SrcIdx(s, src) == CHOOSE i \in 1..Len(s) : s[i] = src /\ \A j \in 1..(i - 1) : s[j] # src

\* C15: the jobs of the complete event are the records the iterations over
\* the sources contributed, iteration after iteration in the order of the
\* requested sources, each iteration's records in the order its extractor
\* returned them (card 1, card 2, ...); with distinct sources the records of
\* an earlier source precede those of a later one.
C15Thm ==
  \A r \in Reqs :
    Completed(r) =>
      LET jobs == CompleteJobs(r)
          srcs == body[r].sources
      IN
      /\ Ids(jobs) = Ids(KeptOf(returned[r]))
      /\ \A i \in 1..Len(returned[r]) :
           /\ returned[r][i].source = srcs[i]
           /\ \A k \in 1..Len(returned[r][i].kept) :
                returned[r][i].kept[k].id = <<srcs[i], k>>
      /\ Distinct(srcs) =>
           \A a, b \in 1..Len(jobs) :
             a < b =>
               \/ SrcIdx(srcs, jobs[a].source) < SrcIdx(srcs, jobs[b].source)
               \/ /\ jobs[a].source = jobs[b].source
                  /\ jobs[a].id[2] < jobs[b].id[2]

\* a complete event with two records of naukri followed by two of linkedin
C15Witness ==
  \E r \in Reqs :
    /\ Completed(r)
    /\ body[r].sources = <<"naukri", "linkedin">>
    /\ Ids(CompleteJobs(r)) =
         <<<<"naukri", 1>>, <<"naukri", 2>>, <<"linkedin", 1>>, <<"linkedin", 2>>>>

(* ---------------- C16 ---------------- *)
IsScraperCall(c) == c.fn \in {"scrapeLinkedIn", "scrapeNaukri"}
IsSourceFrame(f) ==
  /\ f.type = "progress"
  /\ f.message \in {"Searching LinkedIn...", "Searching Naukri.com..."}
IsEnrichFrame(f) == f.type = "progress" /\ f.message = "Finding career pages..."
IsDoneFrame(f) == f.type = "progress" /\ f.progress = 100

\* frame f is the progress event that names source src
NamesSource(f, src) ==
  /\ f.type = "progress"
  /\ f.message = (IF src = "linkedin" THEN "Searching LinkedIn..."
                  ELSE "Searching Naukri.com...")

FramesWhere(r, Test(_)) == {i \in 1..Len(frames[r]) : Test(frames[r][i])}

\* C16: each extractor call has its source's progress event written before
\* it; "Finding career pages..." is written once every extraction has ended
\* and before any findCareerPage call; the 100% event is written after the
\* last enrichment call, followed by the complete event, which is last.
C16Thm ==
  \A r \in Reqs :
    LET calls == SelectSeq(callLog[r], IsScraperCall)
        named == SelectSeq(frames[r], IsSourceFrame)
        enrich == FramesWhere(r, IsEnrichFrame)
        done == FramesWhere(r, IsDoneFrame)
    IN
    /\ Len(named) = Len(calls)
    /\ \A k \in 1..Len(calls) : NamesSource(named[k], body[r].sources[calls[k].at])
    /\ Cardinality(enrich) <= 1
    /\ \A e \in enrich :
         /\ Len(returned[r]) = Len(body[r].sources)
         /\ pc[r] \notin {"srcLoop"} /\ phase[r] # "extract"
         /\ \A i \in FramesWhere(r, IsSourceFrame) : i < e
    /\ CareerCalls(r) # <<>> => enrich # {}
    /\ Cardinality(done) <= 1
    /\ \A d \in done :
         /\ pc[r] = "done"
         /\ \A e \in enrich : e < d
         /\ d = Len(frames[r]) - 1
         /\ Completed(r)
    /\ Completed(r) => done # {} /\ enrich # {}

\* a completed stream: LinkedIn frame, extraction, "Finding career pages...",
\* enrichment calls, 100%, complete
C16Witness ==
  \E r \in Reqs :
    /\ Completed(r)
    /\ body[r].sources = <<"naukri", "linkedin">>
    /\ Len(frames[r]) = 5
    /\ Len(CareerCalls(r)) = 2

C18Claim ==
  [][\A r \in Reqs :
       (/\ phase[r] \in {"career", "email"}
        /\ phase'[r] = "none"
        /\ allJobs'[r] = allJobs[r]) =>
         /\ pc'[r] = "enrichLoop"
         /\ ei'[r] = ei[r] + 1
         /\ allJobs'[r][ei[r] + 1].careerPageUrl = Undefined
         /\ allJobs'[r][ei[r] + 1].hrEmail = Undefined]_vars

(* ---------------- C19 ---------------- *)
\* C19: a launch that fails leaves browser as it was (unset); a getBrowser
\* call that finds it unset launches, one that finds it set returns it
\* without launching; once it is set and no launch of an overlapping call is
\* in flight, it never changes and nothing is launched again.
C19Thm ==
  /\ [][\A r \in Reqs :
         (pc[r] = "launching" /\ handleLog'[r] = Append(handleLog[r], NoBrowser))
           => browser' = browser]_vars
  /\ [][\A r \in Reqs :
         (pc[r] = "getBrowser" /\ pc'[r] # "getBrowser") =>
           IF browser = NoBrowser
           THEN launched' = launched + 1 /\ pc'[r] = "launching"
           ELSE /\ launched' = launched
                /\ browser' = browser
                /\ handleLog'[r] = Append(handleLog[r], browser)]_vars
  /\ [][(browser # NoBrowser /\ \A r \in Reqs : pc[r] # "launching") =>
          /\ browser' = browser
          /\ launched' = launched
          /\ processes' = processes]_vars

\* the launch of one request failed, the next launch succeeded, and the
\* later calls of another request all got that one handle
C19Witness ==
  \E r1, r2 \in Reqs :
    /\ r1 # r2
    /\ handleLog[r2] = <<NoBrowser>>
    /\ Len(handleLog[r1]) >= 3
    /\ \A i \in 1..Len(handleLog[r1]) : handleLog[r1][i] = 1
    /\ launched = 2
    /\ processes = {1}

(* ---------------- C20 ---------------- *)
IsUnknown(src) == src # "linkedin" /\ src # "naukri"

\* the iteration of the loop over sources for an unknown source is the next
\* thing r does
AtUnknown(r) ==
  /\ pc[r] = "srcLoop"
  /\ si[r] <= Len(body[r].sources)
  /\ IsUnknown(body[r].sources[si[r]])

\* C20: the iteration for a source that is neither linkedin nor naukri
\* writes no frame, calls nothing, touches neither the browser nor a page
\* and adds no job; the complete event has no record of it and the stream
\* has one source frame per known source.
C20Thm ==
  /\ [][\A r \in Reqs :
         (AtUnknown(r) /\ si'[r] # si[r]) =>
           /\ si'[r] = si[r] + 1
           /\ pc'[r] = "srcLoop"
           /\ frames'[r] = frames[r]
           /\ allJobs'[r] = allJobs[r]
           /\ callLog'[r] = callLog[r]
           /\ handleLog'[r] = handleLog[r]
           /\ openPages'[r] = openPages[r]
           /\ UNCHANGED <<browser, launched, processes>>]_vars
  /\ [][\A r \in Reqs : AtUnknown(r) => (frames'[r] = frames[r] /\ pc'[r] = "srcLoop")]_vars
  /\ [](\A r \in Reqs :
         Completed(r) =>
           /\ \A k \in 1..Len(CompleteJobs(r)) : ~IsUnknown(CompleteJobs(r)[k].source)
           /\ Len(SelectSeq(frames[r], IsSourceFrame))
                = Cardinality({i \in 1..Len(body[r].sources) :
                                 ~IsUnknown(body[r].sources[i])}))

\* a complete event with LinkedIn records for the sources [indeed, linkedin]
C20Witness ==
  \E r \in Reqs :
    /\ Completed(r)
    /\ body[r].sources = <<"indeed", "linkedin">>
    /\ CompleteJobs(r) # <<>>
    /\ Len(frames[r]) = 4

====
